---- MODULE Spec2Model ----
(***************************************************************************)
(* Model of sketchs/sketch.ino: an ESP32 node that connects to WiFi once,  *)
(* keeps an MQTT session alive and publishes three readings per cycle.     *)
(* The program is single-threaded; pc is the position of the one thread.   *)
(* The WiFi link and the broker session are the environment: they change   *)
(* between the program's steps (WifiUp, WifiDown, BrokerDrop).             *)
(***************************************************************************)
EXTENDS Integers, Sequences, FiniteSets, TLC

\* ---------------------------------------------------------------- bounds
\* client.connect() calls per cycle that the environment may undo: by
\* failing them, or by dropping the session before reconnect() returns
MaxAttempts == 2
\* sensor readings are 0 .. MaxReading tenths of a unit, or NaN
MaxReading == 1
\* raw values of the random generator are 0 .. MaxRand
MaxRand == 31

\* ------------------------------------------------------------- constants
topic_temp == "innagrika/field/raw/temperature"
topic_humid == "innagrika/field/raw/humidity"
topic_soil == "innagrika/field/raw/soil_moisture"
Topics == {topic_temp, topic_humid, topic_soil}

WL_CONNECTED == "WL_CONNECTED"
WL_DISCONNECTED == "WL_DISCONNECTED"
\* value held by wifiSeen while WiFi.status() has never been called
NotRead == "not_read"

SoilMin == 30
SoilMax == 60

\* ---------------------------------------------------------------- floats
\* A float is NaN or a number held in tenths (the DHT22 resolution).
NaN == [nan |-> TRUE, v |-> 0]
Num(tenths) == [nan |-> FALSE, v |-> tenths]
isnan(x) == x.nan
\* float soil = <long>: the integer-to-float conversion of line 87
ToFloat(n) == Num(n * 10)
SensorValues == {NaN} \cup {Num(i) : i \in 0..MaxReading}

\* String(float): two decimals; the text is modelled as <<integer part,
\* hundredths>> ("24.50" is <<24, 50>>), "nan" as <<-1, -1>>.
StringOfFloat(x) ==
  IF isnan(x) THEN <<-1, -1>> ELSE <<x.v \div 10, (x.v % 10) * 10>>

\* the JSON text built at lines 78, 82, 88
Payload(id, x) == [sensor_id |-> id, value |-> StringOfFloat(x)]

\* random(howsmall, howbig) of the Arduino core, raw being the generator's
\* next value
RandomOffByOne(howsmall, howbig, raw) ==
  IF howsmall >= howbig THEN howsmall
  ELSE howsmall + (raw % (howbig - howsmall + 1))

Random(howsmall, howbig, raw) ==
  IF howsmall >= howbig THEN howsmall
  ELSE howsmall + (raw % (howbig - howsmall))

\* isnan(h) || isnan(t), line 71
SensorInvalidBoth(hum, temp) == isnan(hum) /\ isnan(temp)

SensorInvalid(hum, temp) == isnan(hum) \/ isnan(temp)

VARIABLES
  pc,              \* position of the thread
  wifiStatus,      \* what WiFi.status() would return now
  wifiBegins,      \* number of WiFi.begin() calls so far
  wifiSeen,        \* last value WiFi.status() returned to setup_wifi
  brokerConnected, \* what client.connected() would return now
  h, t, soil,      \* locals of loop()
  published,       \* publish calls of the current cycle, in order
  events,          \* operations of the current cycle, in order
  pubGap           \* per topic: how its last publish relates to delay(5000)

vars == <<pc, wifiStatus, wifiBegins, wifiSeen, brokerConnected, h, t, soil,
          published, events, pubGap>>

\* ------------------------------------------------------------ event log
Count(e) == Cardinality({i \in 1..Len(events) : events[i] = e})
Has(e) == \E i \in 1..Len(events) : events[i] = e
\* index of the first occurrence of e, 0 when absent
Pos(e) ==
  IF Has(e) THEN CHOOSE i \in 1..Len(events) :
                   events[i] = e /\ \A j \in 1..(i-1) : events[j] # e
  ELSE 0
Log(e) == events' = Append(events, e)
\* client.connect() calls of the current cycle
Attempts == Count("connect_ok") + Count("connect_fail")
PubCount(topic) ==
  Cardinality({i \in 1..Len(published) : published[i].topic = topic})

\* pubGap[topic] is "never" before the topic's first publish, "first" after
\* it, "slept" once delay(5000) has run since the last publish, "again" after
\* a publish that followed such a sleep, and "nosleep" for good once the
\* topic was published twice with no delay(5000) in between.
AfterPublish(gap) ==
  CASE gap = "never" -> "first"
    [] gap = "slept" -> "again"
    [] OTHER -> "nosleep"
AfterSleep(gap) ==
  CASE gap \in {"first", "again"} -> "slept"
    [] OTHER -> gap

SetupPcs == {"setup", "wifi_begin", "wifi_check", "wifi_delay", "wifi_done",
             "set_server"}
WifiPcs == {"wifi_begin", "wifi_check", "wifi_delay"}
ReconnectPcs == {"rc_check", "rc_connect", "rc_delay", "rc_return"}
CyclePcs == {"loop_check", "tick", "readH", "readT", "nan_check", "pubTemp",
             "pubHumid", "genSoil", "pubSoil", "delay", "loop_return"}
             \cup ReconnectPcs

Init ==
  /\ pc = "setup"
  /\ wifiStatus = WL_DISCONNECTED
  /\ wifiBegins = 0
  /\ wifiSeen = NotRead
  /\ brokerConnected = FALSE
  /\ h = NaN
  /\ t = NaN
  /\ soil = NaN
  /\ published = <<>>
  /\ events = <<>>
  /\ pubGap = [topic \in Topics |-> "never"]

\* ----------------------------------------------------------- environment
\* the access point accepts the station; only after WiFi.begin()
WifiUp ==
  /\ wifiBegins > 0
  /\ wifiStatus = WL_DISCONNECTED
  /\ wifiStatus' = WL_CONNECTED
  /\ UNCHANGED <<pubGap, pc, wifiBegins, wifiSeen, brokerConnected, h, t, soil,
                 published, events>>

\* the link is lost
WifiDown ==
  /\ wifiStatus = WL_CONNECTED
  /\ wifiStatus' = WL_DISCONNECTED
  /\ UNCHANGED <<pubGap, pc, wifiBegins, wifiSeen, brokerConnected, h, t, soil,
                 published, events>>

\* the broker session is lost
BrokerDrop ==
  /\ brokerConnected
  /\ pc \in ReconnectPcs => Attempts <= MaxAttempts
  /\ brokerConnected' = FALSE
  /\ UNCHANGED <<pubGap, pc, wifiStatus, wifiBegins, wifiSeen, h, t, soil,
                 published, events>>

\* ----------------------------------------------------------------- setup
SetupSkipWifi ==
  /\ pc = "setup"
  /\ pc' = "set_server"
  /\ UNCHANGED <<pubGap, wifiStatus, wifiBegins, wifiSeen, brokerConnected, h, t,
                 soil, published, events>>

\* Serial.begin, dht.begin, call of setup_wifi
Setup ==
  /\ pc = "setup"
  /\ pc' = "wifi_begin"
  /\ UNCHANGED <<pubGap, wifiStatus, wifiBegins, wifiSeen, brokerConnected, h, t,
                 soil, published, events>>

\* WiFi.mode, WiFi.begin
WifiBegin ==
  /\ pc = "wifi_begin"
  /\ wifiBegins' = wifiBegins + 1
  /\ pc' = "wifi_check"
  /\ UNCHANGED <<pubGap, wifiStatus, wifiSeen, brokerConnected, h, t, soil,
                 published, events>>

WifiCheckInverted ==
  /\ pc = "wifi_check"
  /\ wifiSeen' = wifiStatus
  /\ pc' = IF wifiStatus = WL_CONNECTED THEN "wifi_delay" ELSE "wifi_done"
  /\ UNCHANGED <<pubGap, wifiStatus, wifiBegins, brokerConnected, h, t, soil,
                 published, events>>

\* while (WiFi.status() != WL_CONNECTED)
WifiCheck ==
  /\ pc = "wifi_check"
  /\ wifiSeen' = wifiStatus
  /\ pc' = IF wifiStatus # WL_CONNECTED THEN "wifi_delay" ELSE "wifi_done"
  /\ UNCHANGED <<pubGap, wifiStatus, wifiBegins, brokerConnected, h, t, soil,
                 published, events>>

\* delay(500); Serial.print(".")
WifiDelay ==
  /\ pc = "wifi_delay"
  /\ pc' = "wifi_check"
  /\ UNCHANGED <<pubGap, wifiStatus, wifiBegins, wifiSeen, brokerConnected, h, t,
                 soil, published, events>>

\* Serial.println("WiFi connected"); setup_wifi returns
WifiDone ==
  /\ pc = "wifi_done"
  /\ pc' = "set_server"
  /\ UNCHANGED <<pubGap, wifiStatus, wifiBegins, wifiSeen, brokerConnected, h, t,
                 soil, published, events>>

\* client.setServer; setup returns and the core starts calling loop()
SetServer ==
  /\ pc = "set_server"
  /\ pc' = "loop_check"
  /\ UNCHANGED <<pubGap, wifiStatus, wifiBegins, wifiSeen, brokerConnected, h, t,
                 soil, published, events>>

\* ------------------------------------------------------------- reconnect
\* while (!client.connected())
ReconnectCheck ==
  /\ pc = "rc_check"
  /\ Log(IF brokerConnected THEN "rc_chk_true" ELSE "rc_chk_false")
  /\ pc' = IF brokerConnected THEN "rc_return" ELSE "rc_connect"
  /\ UNCHANGED <<pubGap, wifiStatus, wifiBegins, wifiSeen, brokerConnected, h, t,
                 soil, published>>

ConnectAttemptNoWait ==
  /\ pc = "rc_connect"
  /\ \E ok \in BOOLEAN :
       /\ ok => wifiStatus = WL_CONNECTED
       /\ ~ok => Attempts < MaxAttempts
       /\ brokerConnected' = ok
       /\ Log(IF ok THEN "connect_ok" ELSE "connect_fail")
       /\ pc' = "rc_check"
  /\ UNCHANGED <<pubGap, wifiStatus, wifiBegins, wifiSeen, h, t, soil,
                 published>>

ConnectAttemptRejoinWifi ==
  /\ pc = "rc_connect"
  /\ \E ok \in BOOLEAN :
       /\ ok => wifiStatus = WL_CONNECTED
       /\ ~ok => Attempts < MaxAttempts
       /\ brokerConnected' = ok
       /\ Log(IF ok THEN "connect_ok" ELSE "connect_fail")
       /\ pc' = IF ok THEN "rc_check" ELSE "wifi_begin"
  /\ UNCHANGED <<pubGap, wifiStatus, wifiBegins, wifiSeen, h, t, soil,
                 published>>

\* client.connect(clientId): one handshake. It can succeed only over an
\* active link.
ConnectAttempt ==
  /\ pc = "rc_connect"
  /\ \E ok \in BOOLEAN :
       /\ ok => wifiStatus = WL_CONNECTED
       /\ ~ok => Attempts < MaxAttempts
       /\ brokerConnected' = ok
       /\ Log(IF ok THEN "connect_ok" ELSE "connect_fail")
       /\ pc' = IF ok THEN "rc_check" ELSE "rc_delay"
  /\ UNCHANGED <<pubGap, wifiStatus, wifiBegins, wifiSeen, h, t, soil, published>>

ReconnectDelayThenReturn ==
  /\ pc = "rc_delay"
  /\ Log("wait")
  /\ pc' = "rc_return"
  /\ UNCHANGED <<pubGap, wifiStatus, wifiBegins, wifiSeen, brokerConnected, h, t,
                 soil, published>>

\* delay(5000) of the else branch, then back to the loop condition
ReconnectDelay ==
  /\ pc = "rc_delay"
  /\ Log("wait")
  /\ pc' = "rc_check"
  /\ UNCHANGED <<pubGap, wifiStatus, wifiBegins, wifiSeen, brokerConnected, h, t,
                 soil, published>>

\* reconnect() returns to loop()
ReconnectReturn ==
  /\ pc = "rc_return"
  /\ pc' = "tick"
  /\ UNCHANGED <<pubGap, wifiStatus, wifiBegins, wifiSeen, brokerConnected, h, t,
                 soil, published, events>>

\* ------------------------------------------------------------------ loop
LoopCheckNoReconnect ==
  /\ pc = "loop_check"
  /\ Log(IF brokerConnected THEN "loop_chk_true" ELSE "loop_chk_false")
  /\ pc' = "tick"
  /\ UNCHANGED <<pubGap, wifiStatus, wifiBegins, wifiSeen, brokerConnected, h, t,
                 soil, published>>

LoopCheckSkipTick ==
  /\ pc = "loop_check"
  /\ Log(IF brokerConnected THEN "loop_chk_true" ELSE "loop_chk_false")
  /\ pc' = IF brokerConnected THEN "readH" ELSE "rc_check"
  /\ UNCHANGED <<pubGap, wifiStatus, wifiBegins, wifiSeen, brokerConnected,
                 h, t, soil, published>>

LoopCheckAlwaysConnect ==
  /\ pc = "loop_check"
  /\ Log(IF brokerConnected THEN "loop_chk_true" ELSE "loop_chk_false")
  /\ pc' = "rc_connect"
  /\ UNCHANGED <<pubGap, wifiStatus, wifiBegins, wifiSeen, brokerConnected,
                 h, t, soil, published>>

\* if (!client.connected()) reconnect();
LoopCheck ==
  /\ pc = "loop_check"
  /\ Log(IF brokerConnected THEN "loop_chk_true" ELSE "loop_chk_false")
  /\ pc' = IF brokerConnected THEN "tick" ELSE "rc_check"
  /\ UNCHANGED <<pubGap, wifiStatus, wifiBegins, wifiSeen, brokerConnected, h, t,
                 soil, published>>

\* client.loop(): processes session traffic and may find the session dead
Tick ==
  /\ pc = "tick"
  /\ \E alive \in BOOLEAN : brokerConnected' = (brokerConnected /\ alive)
  /\ Log("tick")
  /\ pc' = "readH"
  /\ UNCHANGED <<pubGap, wifiStatus, wifiBegins, wifiSeen, h, t, soil, published>>

\* float h = dht.readHumidity();
ReadH ==
  /\ pc = "readH"
  /\ \E x \in SensorValues : h' = x
  /\ Log("readH")
  /\ pc' = "readT"
  /\ UNCHANGED <<pubGap, wifiStatus, wifiBegins, wifiSeen, brokerConnected, t, soil,
                 published>>

\* float t = dht.readTemperature();
ReadT ==
  /\ pc = "readT"
  /\ \E x \in SensorValues : t' = x
  /\ Log("readT")
  /\ pc' = "nan_check"
  /\ UNCHANGED <<pubGap, wifiStatus, wifiBegins, wifiSeen, brokerConnected, h, soil,
                 published>>

\* if (isnan(h) || isnan(t)) { ...; return; }
NanCheck ==
  /\ pc = "nan_check"
  /\ pc' = IF SensorInvalid(h, t) THEN "loop_return" ELSE "pubTemp"
  /\ UNCHANGED <<pubGap, wifiStatus, wifiBegins, wifiSeen, brokerConnected, h, t,
                 soil, published, events>>

\* client.publish(topic, payload): fails when the session is down and may
\* fail when it is up; the result goes to no variable of the program.
Publish(topic, payload, ok) ==
  /\ ok => brokerConnected
  /\ published' = Append(published,
                         [topic |-> topic, payload |-> payload, ok |-> ok])
  /\ pubGap' = [pubGap EXCEPT ![topic] = AfterPublish(pubGap[topic])]
  /\ Log(topic)

PublishTempAbortOnFail ==
  /\ pc = "pubTemp"
  /\ \E ok \in BOOLEAN :
       /\ Publish(topic_temp, Payload("dht22_01", t), ok)
       /\ pc' = IF ok THEN "pubHumid" ELSE "loop_return"
  /\ UNCHANGED <<wifiStatus, wifiBegins, wifiSeen, brokerConnected, h, t,
                 soil>>

PublishTempWrongTopic ==
  /\ pc = "pubTemp"
  /\ \E ok \in BOOLEAN : Publish(topic_humid, Payload("dht22_01", h), ok)
  /\ pc' = "pubHumid"
  /\ UNCHANGED <<wifiStatus, wifiBegins, wifiSeen, brokerConnected, h, t,
                 soil>>

\* payloadTemp, client.publish(topic_temp, ...)
PublishTemp ==
  /\ pc = "pubTemp"
  /\ \E ok \in BOOLEAN : Publish(topic_temp, Payload("dht22_01", t), ok)
  /\ pc' = "pubHumid"
  /\ UNCHANGED <<wifiStatus, wifiBegins, wifiSeen, brokerConnected, h, t,
                 soil>>

PublishHumidSwapped ==
  /\ pc = "pubHumid"
  /\ \E ok \in BOOLEAN : Publish(topic_humid, Payload("dht22_01", t), ok)
  /\ pc' = "genSoil"
  /\ UNCHANGED <<wifiStatus, wifiBegins, wifiSeen, brokerConnected, h, t,
                 soil>>

PublishHumidIfConnected ==
  /\ pc = "pubHumid"
  /\ IF brokerConnected
       THEN \E ok \in BOOLEAN :
              Publish(topic_humid, Payload("dht22_01", h), ok)
       ELSE UNCHANGED <<published, events, pubGap>>
  /\ pc' = "genSoil"
  /\ UNCHANGED <<wifiStatus, wifiBegins, wifiSeen, brokerConnected, h, t,
                 soil>>

\* payloadHumid, client.publish(topic_humid, ...)
PublishHumid ==
  /\ pc = "pubHumid"
  /\ \E ok \in BOOLEAN : Publish(topic_humid, Payload("dht22_01", h), ok)
  /\ pc' = "genSoil"
  /\ UNCHANGED <<wifiStatus, wifiBegins, wifiSeen, brokerConnected, h, t,
                 soil>>

\* float soil = random(30, 60);
GenSoil ==
  /\ pc = "genSoil"
  /\ \E raw \in 0..MaxRand : soil' = ToFloat(Random(SoilMin, SoilMax, raw))
  /\ Log("soil")
  /\ pc' = "pubSoil"
  /\ UNCHANGED <<pubGap, wifiStatus, wifiBegins, wifiSeen, brokerConnected, h, t,
                 published>>

PublishSoilWrongTopic ==
  /\ pc = "pubSoil"
  /\ \E ok \in BOOLEAN : Publish(topic_humid, Payload("soil_01", soil), ok)
  /\ pc' = "delay"
  /\ UNCHANGED <<wifiStatus, wifiBegins, wifiSeen, brokerConnected, h, t,
                 soil>>

PublishSoilNoSleep ==
  /\ pc = "pubSoil"
  /\ \E ok \in BOOLEAN : Publish(topic_soil, Payload("soil_01", soil), ok)
  /\ pc' = "loop_return"
  /\ UNCHANGED <<wifiStatus, wifiBegins, wifiSeen, brokerConnected, h, t,
                 soil>>

\* payloadSoil, client.publish(topic_soil, ...), Serial prints
PublishSoil ==
  /\ pc = "pubSoil"
  /\ \E ok \in BOOLEAN : Publish(topic_soil, Payload("soil_01", soil), ok)
  /\ pc' = "delay"
  /\ UNCHANGED <<wifiStatus, wifiBegins, wifiSeen, brokerConnected, h, t,
                 soil>>

\* delay(5000);
Delay ==
  /\ pc = "delay"
  /\ Log("sleep")
  /\ pc' = "loop_return"
  /\ pubGap' = [topic \in Topics |-> AfterSleep(pubGap[topic])]
  /\ UNCHANGED <<wifiStatus, wifiBegins, wifiSeen, brokerConnected, h, t,
                 soil, published>>

\* loop() returns, its locals die, and the core calls loop() again
LoopReturn ==
  /\ pc = "loop_return"
  /\ pc' = "loop_check"
  /\ h' = NaN
  /\ t' = NaN
  /\ soil' = NaN
  /\ published' = <<>>
  /\ events' = <<>>
  /\ UNCHANGED <<pubGap, wifiStatus, wifiBegins, wifiSeen, brokerConnected>>

Next ==
  \/ WifiUp
  \/ WifiDown
  \/ BrokerDrop
  \/ Setup
  \/ WifiBegin
  \/ WifiCheck
  \/ WifiDelay
  \/ WifiDone
  \/ SetServer
  \/ ReconnectCheck
  \/ ConnectAttempt
  \/ ReconnectDelay
  \/ ReconnectReturn
  \/ LoopCheck
  \/ Tick
  \/ ReadH
  \/ ReadT
  \/ NanCheck
  \/ PublishTemp
  \/ PublishHumid
  \/ GenSoil
  \/ PublishSoil
  \/ Delay
  \/ LoopReturn

Spec == Init /\ [][Next]_vars

\* The steps of the one thread; loop() is called again whenever it returns.
Thread ==
  \/ Setup
  \/ WifiBegin
  \/ WifiCheck
  \/ WifiDelay
  \/ WifiDone
  \/ SetServer
  \/ ReconnectCheck
  \/ ConnectAttempt
  \/ ReconnectDelay
  \/ ReconnectReturn
  \/ LoopCheck
  \/ Tick
  \/ ReadH
  \/ ReadT
  \/ NanCheck
  \/ PublishTemp
  \/ PublishHumid
  \/ GenSoil
  \/ PublishSoil
  \/ Delay
  \/ LoopReturn

\* client.connect() returning true
ConnectSucceeds == ConnectAttempt /\ brokerConnected'

\* The thread always takes its next step; a link that is down comes back;
\* a connect that is retried again and again eventually succeeds.
LiveSpec ==
  /\ Init
  /\ [][Next]_vars
  /\ WF_vars(Thread)
  /\ WF_vars(WifiUp)
  /\ SF_vars(ConnectSucceeds)

TypeOK ==
  /\ pc \in SetupPcs \cup CyclePcs
  /\ wifiStatus \in {WL_CONNECTED, WL_DISCONNECTED}
  /\ wifiBegins \in 0..1
  /\ wifiSeen \in {NotRead, WL_CONNECTED, WL_DISCONNECTED}
  /\ brokerConnected \in BOOLEAN
  /\ h \in SensorValues
  /\ t \in SensorValues
  /\ Len(published) <= 3
  /\ pubGap \in [Topics -> {"never", "first", "slept", "again", "nosleep"}]

\* ------------------------------------------------------------ properties
ReadsDone == Has("readH") /\ Has("readT")
ReadsValid == ReadsDone /\ ~isnan(h) /\ ~isnan(t)
WorkEvents == {"tick", "readH", "readT"} \cup Topics
ConnectEvents == {"connect_ok", "connect_fail"}
\* positions at which the thread is about to do network or sensor work
WorkPcs == {"rc_connect", "tick", "readH", "readT", "pubTemp", "pubHumid",
            "pubSoil"}
TopicOrder == <<topic_temp, topic_humid, topic_soil>>

\* C1: a cycle whose humidity and temperature reads are both valid makes
\* exactly three publish calls, exactly one per topic; no cycle ever
\* publishes a topic twice.
C1_ThreePublishes ==
  /\ \A topic \in Topics : PubCount(topic) <= 1
  /\ (pc = "loop_return" /\ ReadsValid) =>
       /\ Len(published) = 3
       /\ \A topic \in Topics : PubCount(topic) = 1

C1_Witness ==
  /\ pc = "loop_return"
  /\ ReadsValid
  /\ \A topic \in Topics : PubCount(topic) = 1

\* C2: once both reads of a cycle are done and either of them is NaN, the
\* cycle makes no publish call at all and goes straight to its end, whichever
\* of the two reads failed.
C2_NoPublishOnInvalid ==
  (ReadsDone /\ (isnan(h) \/ isnan(t))) =>
    /\ published = <<>>
    /\ \A topic \in Topics : ~Has(topic)
    /\ pc \in {"nan_check", "loop_return"}

C2_Witness ==
  /\ pc = "loop_return"
  /\ ReadsDone
  /\ isnan(t)
  /\ ~isnan(h)
  /\ published = <<>>

\* C3 (as claimed): every cycle ends with the 5-second sleep, also the
\* cycles that exit early on an invalid sensor read.
C3_EveryCycleSleeps ==
  pc = "loop_return" => Has("sleep")

\* C4: reconnect() returns only right after a connected check that was
\* true: the last operation before its return is never a failed connect
\* attempt or the wait that follows one.
C4_ReturnsConnected ==
  pc = "rc_return" =>
    /\ events # <<>>
    /\ events[Len(events)] = "rc_chk_true"

C4_Witness ==
  /\ pc = "rc_return"
  /\ Has("connect_fail")
  /\ events[Len(events)] = "rc_chk_true"

\* C5 (as claimed): while the WiFi link is down no step of broker connect,
\* session tick, sensor read or publish is taken, in any cycle.
C5_NoWorkWhileLinkDown ==
  [][(wifiStatus # WL_CONNECTED /\ pc' # pc) => pc \notin WorkPcs]_vars

\* C5 (amended): at startup the link is polled again after every status
\* read that was not "connected", and until a status read has returned
\* "connected" the thread stays in the startup steps with no broker session
\* and no work done.
C5_StartupLinkBlocksWork ==
  /\ pc = "wifi_delay" => wifiSeen = WL_DISCONNECTED
  /\ wifiSeen # WL_CONNECTED =>
       /\ pc \in {"setup", "wifi_begin", "wifi_check", "wifi_delay"}
       /\ events = <<>>
       /\ ~brokerConnected

C5_Witness ==
  /\ pc = "wifi_delay"
  /\ wifiSeen = WL_DISCONNECTED
  /\ wifiStatus = WL_DISCONNECTED

\* C6: in a cycle whose first connected check is false, every session tick,
\* sensor read and publish comes after a connect attempt and after the
\* reconnect loop's own connected check has returned true.
C6_ReconnectBeforeWork ==
  (events # <<>> /\ events[1] = "loop_chk_false") =>
    \A i \in 1..Len(events) :
      events[i] \in WorkEvents =>
        \E j \in 1..(i-1) : \E k \in (j+1)..(i-1) :
          /\ events[j] \in ConnectEvents
          /\ events[k] = "rc_chk_true"

C6_Witness ==
  /\ events # <<>>
  /\ events[1] = "loop_chk_false"
  /\ Has(topic_temp)

\* C7: every soil-moisture value generated or published is an integer v
\* with 30 <= v < 60.
C7_SoilRange ==
  /\ Has("soil") =>
       /\ ~isnan(soil)
       /\ soil.v % 10 = 0
       /\ 30 <= soil.v \div 10
       /\ soil.v \div 10 < 60
  /\ \A i \in 1..Len(published) :
       published[i].topic = topic_soil =>
         /\ published[i].payload.value[2] = 0
         /\ 30 <= published[i].payload.value[1]
         /\ published[i].payload.value[1] < 60

C7_Witness ==
  \E i \in 1..Len(published) :
    /\ published[i].topic = topic_soil
    /\ published[i].payload.value = <<59, 0>>

\* C8: whatever the three publish calls return, the k-th publish of a cycle
\* goes to the k-th topic, the thread moves on to the next step after each,
\* and a cycle that published ends with three publishes and the sleep.
C8_PublishResultIgnored ==
  /\ \A k \in 1..Len(published) : published[k].topic = TopicOrder[k]
  /\ Len(published) = 1 => pc = "pubHumid"
  /\ Len(published) = 2 => pc \in {"genSoil", "pubSoil"}
  /\ Len(published) = 3 => pc \in {"delay", "loop_return"}
  /\ (pc = "loop_return" /\ published # <<>>) =>
       /\ Len(published) = 3
       /\ Has("sleep")

C8_Witness ==
  /\ pc = "loop_return"
  /\ Len(published) = 3
  /\ ~published[1].ok
  /\ published[2].ok
  /\ ~published[3].ok
  /\ Has("sleep")

\* C9: WiFi.begin() is called exactly once; setup_wifi is left only after a
\* status read returned "connected"; before that there is no broker
\* session and no operation of a cycle has run.
C9_WifiOnceBeforeCycles ==
  /\ wifiBegins <= 1
  /\ pc \in CyclePcs \cup {"wifi_done", "set_server"} =>
       /\ wifiBegins = 1
       /\ wifiSeen = WL_CONNECTED
  /\ pc \notin CyclePcs =>
       /\ events = <<>>
       /\ published = <<>>
       /\ ~brokerConnected

C9_Witness ==
  /\ pc = "tick"
  /\ wifiBegins = 1
  /\ wifiSeen = WL_CONNECTED

\* C10: in a cycle the temperature publish comes after the session tick and
\* both sensor reads, the humidity publish after the temperature publish,
\* the soil publish after the humidity publish, and the sleep after the
\* soil publish.
C10_PublishOrder ==
  /\ Has(topic_temp) =>
       /\ 0 < Pos("tick") /\ Pos("tick") < Pos(topic_temp)
       /\ 0 < Pos("readH") /\ Pos("readH") < Pos(topic_temp)
       /\ 0 < Pos("readT") /\ Pos("readT") < Pos(topic_temp)
  /\ Has(topic_humid) =>
       0 < Pos(topic_temp) /\ Pos(topic_temp) < Pos(topic_humid)
  /\ Has(topic_soil) =>
       0 < Pos(topic_humid) /\ Pos(topic_humid) < Pos(topic_soil)
  /\ Has("sleep") =>
       0 < Pos(topic_soil) /\ Pos(topic_soil) < Pos("sleep")

C10_Witness ==
  /\ Has("sleep")
  /\ Pos(topic_temp) < Pos(topic_humid)
  /\ Pos(topic_humid) < Pos(topic_soil)
  /\ Pos(topic_soil) < Pos("sleep")

CheckEvents == {"loop_chk_true", "loop_chk_false", "rc_chk_true",
                "rc_chk_false"}
TrueChecks == {"loop_chk_true", "rc_chk_true"}
\* positions after the session tick of a cycle
AfterTickPcs == {"readH", "readT", "nan_check", "pubTemp", "pubHumid",
                 "genSoil", "pubSoil", "delay", "loop_return"}
\* the number (in tenths) that a two-decimal text stands for
ParseValue(text) == text[1] * 10 + text[2] \div 10

\* C11: client.loop() runs exactly once per cycle, also in a cycle that
\* exits early on an invalid read; it comes right after the cycle's
\* connected check when that was true, right after reconnect()'s final true
\* check otherwise, and before the sensor reads.
C11_TickOncePerCycle ==
  /\ Count("tick") <= 1
  /\ pc \in AfterTickPcs => Count("tick") = 1
  /\ Has("readH") => (0 < Pos("tick") /\ Pos("tick") < Pos("readH"))
  /\ Has("tick") =>
       /\ events[1] \in {"loop_chk_true", "loop_chk_false"}
       /\ events[1] = "loop_chk_true" => Pos("tick") = 2
       /\ events[1] = "loop_chk_false" =>
            events[Pos("tick") - 1] = "rc_chk_true"

C11_Witness ==
  /\ pc = "loop_return"
  /\ isnan(h)
  /\ ~Has("sleep")
  /\ Count("tick") = 1

\* every failed connect is followed by the wait, every wait follows a
\* failed connect, and a successful connect is followed by the connected
\* check with no wait
C12_WaitOnlyAfterFailure ==
  \A i \in 1..Len(events) :
    /\ events[i] = "connect_fail" =>
         IF i = Len(events) THEN pc = "rc_delay" ELSE events[i+1] = "wait"
    /\ events[i] = "wait" => (i > 1 /\ events[i-1] = "connect_fail")
    /\ events[i] = "connect_ok" =>
         IF i = Len(events) THEN pc = "rc_check"
         ELSE events[i+1] \in {"rc_chk_true", "rc_chk_false"}

C13_PayloadValues ==
  \A i \in 1..Len(published) :
    LET m == published[i] IN
      /\ m.topic = topic_temp =>
           /\ m.payload.sensor_id = "dht22_01"
           /\ Has("readT") /\ ~isnan(t)
           /\ ParseValue(m.payload.value) = t.v
      /\ m.topic = topic_humid =>
           /\ m.payload.sensor_id = "dht22_01"
           /\ Has("readH") /\ ~isnan(h)
           /\ ParseValue(m.payload.value) = h.v
      /\ m.topic = topic_soil =>
           /\ m.payload.sensor_id = "soil_01"
           /\ Has("soil") /\ ~isnan(soil)
           /\ ParseValue(m.payload.value) = soil.v

C13_Witness ==
  /\ pc = "delay"
  /\ Len(published) = 3
  /\ t.v # h.v
  /\ soil.v = 300

\* a step that stays in the cycle, calls no WiFi.begin() and reads no status
C14_StepLeavesWifiAlone ==
  /\ pc' \in CyclePcs
  /\ wifiBegins' = wifiBegins
  /\ wifiSeen' = wifiSeen

\* C14: once the thread is in a cycle, WiFi.begin() has been called exactly
\* once, and no step of a cycle or of reconnect() calls it again, reads the
\* link status or goes back to the startup steps.
C14_NoWifiAfterStartup ==
  /\ [](pc \in CyclePcs => wifiBegins = 1)
  /\ [][(pc \in CyclePcs) => C14_StepLeavesWifiAlone]_vars

C14_Witness ==
  /\ pc = "rc_delay"
  /\ wifiStatus = WL_DISCONNECTED
  /\ Count("connect_fail") = MaxAttempts
  /\ wifiBegins = 1

\* C15: no topic is ever published twice without a delay(5000) between the
\* two publishes, and a cycle that published ends right after its sleep.
C15_SleepBetweenPublishes ==
  /\ \A topic \in Topics : pubGap[topic] # "nosleep"
  /\ (pc = "loop_return" /\ published # <<>>) =>
       /\ events[Len(events)] = "sleep"
       /\ \A topic \in Topics : pubGap[topic] = "slept"

C15_Witness ==
  /\ pc = "delay"
  /\ \A topic \in Topics : pubGap[topic] = "again"

\* C16: a cycle whose first connected check is true makes no connect
\* attempt; every connect attempt is in a cycle whose first check was false
\* and comes right after a false check of reconnect().
C16_ConnectOnlyWhenDisconnected ==
  /\ (events # <<>> /\ events[1] = "loop_chk_true") =>
       \A i \in 1..Len(events) : events[i] \notin ConnectEvents
  /\ \A i \in 1..Len(events) :
       events[i] \in ConnectEvents =>
         /\ i > 2
         /\ events[1] = "loop_chk_false"
         /\ events[i-1] = "rc_chk_false"
  /\ pc = "rc_connect" => events[Len(events)] = "rc_chk_false"

C16_Witness ==
  /\ pc = "loop_return"
  /\ events[1] = "loop_chk_true"
  /\ Len(published) = 3

\* C17: the last connected check before every publish of a cycle was true,
\* there is no connected check between the session tick and the end of the
\* cycle, and a cycle with valid reads makes its three publish calls also
\* when the session is down by then.
C17_PublishAfterTrueCheck ==
  /\ \A i \in 1..Len(events) :
       events[i] \in Topics =>
         \E k \in 1..(i-1) :
           /\ events[k] \in TrueChecks
           /\ \A j \in (k+1)..i : events[j] \notin CheckEvents
  /\ \A i \in 1..Len(events) :
       events[i] \in CheckEvents => (~Has("tick") \/ i < Pos("tick"))
  /\ pc \in {"genSoil", "pubSoil"} => Len(published) = 2
  /\ pc = "delay" => Len(published) = 3

C17_Witness ==
  /\ pc = "delay"
  /\ ~brokerConnected
  /\ Len(published) = 3
  /\ \A k \in 1..3 : ~published[k].ok
====
